---- MODULE Spec2Model ----
(***************************************************************************)
(* One invocation of a Netlify function that proxies a prompt to the       *)
(* Gemini API.  The repository holds four variants of the handler:         *)
(*   "part_001"      src/unnamed/part_001   (retry loop inside the handler)*)
(*   "gemini_proxy"  src/functions/gemini_proxy.js   (single call)         *)
(*   "ai_proxy"      src/netlify/functions/ai-proxy.js  (retryFetch)       *)
(*   "part_000"      src/unnamed/part_000   (single call, no validation)   *)
(* The handler runs from one await point to the next: Invoke runs the      *)
(* synchronous prologue up to the first fetch, FetchSettle runs from the   *)
(* settlement of a fetch to the next sleep or to the return, Wake runs     *)
(* from the end of a backoff sleep to the next fetch.                      *)
(***************************************************************************)
EXTENDS Integers, Sequences, FiniteSets, TLC

VARIABLES
    variant,    \* which handler runs
    event,      \* the inbound request: httpMethod and body
    apiKey,     \* process.env.GEMINI_API_KEY
    pc,         \* "start", "fetching", "sleeping" or "done"
    payload,    \* the payload built by the prologue
    attempt,    \* the loop counter (attempt in part_001, i in retryFetch)
    sent,       \* the payloads of the fetches issued so far
    calls,      \* the settlements of the fetches so far
    sleeps,     \* the backoff delays slept so far, in ms
    response    \* what the handler gave back

vars == <<variant, event, apiKey, pc, payload, attempt, sent, calls, sleeps,
          response>>

Variants == {"part_001", "gemini_proxy", "ai_proxy", "part_000"}

\* The variants that retry the upstream call.
Retrying == {"part_001", "ai_proxy"}

Methods == {"POST", "GET", "DELETE"}

\* process.env.GEMINI_API_KEY; "" stands for an unset (or empty) variable.
NoKey == ""
Keys == {NoKey, "key-A"}

(***************************************************************************)
(* JavaScript values, as far as the handlers look at them.                 *)
(***************************************************************************)
Prim(t, s, n) == [t |-> t, s |-> s, n |-> n]
Undef == Prim("undefined", "", 0)
Null == Prim("null", "", 0)
Str(s) == Prim("string", s, 0)
Num(n) == Prim("number", "", n)
Bool(b) == Prim("boolean", "", IF b THEN 1 ELSE 0)
EmptyObj == Prim("object", "", 0)
EmptyArr == Prim("array", "", 0)

\* ToBoolean: undefined, null, "", 0 and false are falsy; all else is truthy.
Truthy_EmptyIsTruthy(v) ==
    CASE v.t = "undefined" -> FALSE
      [] v.t = "null" -> FALSE
      [] v.t = "string" -> TRUE
      [] v.t = "number" -> v.n # 0
      [] v.t = "boolean" -> v.n = 1
      [] OTHER -> TRUE

Truthy(v) ==
    CASE v.t = "undefined" -> FALSE
      [] v.t = "null" -> FALSE
      [] v.t = "string" -> v.s # ""
      [] v.t = "number" -> v.n # 0
      [] v.t = "boolean" -> v.n = 1
      [] OTHER -> TRUE

FieldNames == {"prompt", "userPrompt", "systemInstruction", "tools"}
NoFields == [k \in FieldNames |-> Undef]
\* A parsed JSON value: its type and, for an object, its fields.
Val(t) == [t |-> t, f |-> NoFields]
Obj(fs) == [t |-> "object", f |-> fs]
With(o, k, v) == [o EXCEPT !.f[k] = v]

\* event.body when the request carries no body.
NoBody == "<undefined>"

\* The request bodies the model draws from.
RawBodies ==
    { NoBody, "", "not json", "{\"prompt\":", "null", "5", "\"hi\"", "[]",
      "{}", "{\"prompt\":\"\"}", "{\"prompt\":\"hi\"}", "{\"prompt\":\"yo\"}",
      "{\"prompt\":5}", "{\"prompt\":0}", "{\"prompt\":true}",
      "{\"prompt\":{}}", "{\"prompt\":null}",
      "{\"userPrompt\":\"hi\"}", "{\"userPrompt\":\"\"}", "{\"userPrompt\":[]}",
      "{\"prompt\":\"hi\",\"systemInstruction\":\"x\",\"tools\":[]}",
      "{\"userPrompt\":\"hi\",\"systemInstruction\":\"x\",\"tools\":[]}" }

\* JSON.parse: the parsed value, or a SyntaxError.
JSONParse(raw) ==
    CASE raw = "null" -> [ok |-> TRUE, val |-> Val("null")]
      [] raw = "5" -> [ok |-> TRUE, val |-> Val("number")]
      [] raw = "\"hi\"" -> [ok |-> TRUE, val |-> Val("string")]
      [] raw = "[]" -> [ok |-> TRUE, val |-> Val("array")]
      [] raw = "{}" -> [ok |-> TRUE, val |-> Obj(NoFields)]
      [] raw = "{\"prompt\":\"\"}" ->
            [ok |-> TRUE, val |-> With(Obj(NoFields), "prompt", Str(""))]
      [] raw = "{\"prompt\":\"hi\"}" ->
            [ok |-> TRUE, val |-> With(Obj(NoFields), "prompt", Str("hi"))]
      [] raw = "{\"prompt\":\"yo\"}" ->
            [ok |-> TRUE, val |-> With(Obj(NoFields), "prompt", Str("yo"))]
      [] raw = "{\"prompt\":5}" ->
            [ok |-> TRUE, val |-> With(Obj(NoFields), "prompt", Num(5))]
      [] raw = "{\"prompt\":0}" ->
            [ok |-> TRUE, val |-> With(Obj(NoFields), "prompt", Num(0))]
      [] raw = "{\"prompt\":true}" ->
            [ok |-> TRUE, val |-> With(Obj(NoFields), "prompt", Bool(TRUE))]
      [] raw = "{\"prompt\":{}}" ->
            [ok |-> TRUE, val |-> With(Obj(NoFields), "prompt", EmptyObj)]
      [] raw = "{\"prompt\":null}" ->
            [ok |-> TRUE, val |-> With(Obj(NoFields), "prompt", Null)]
      [] raw = "{\"userPrompt\":\"hi\"}" ->
            [ok |-> TRUE, val |-> With(Obj(NoFields), "userPrompt", Str("hi"))]
      [] raw = "{\"userPrompt\":\"\"}" ->
            [ok |-> TRUE, val |-> With(Obj(NoFields), "userPrompt", Str(""))]
      [] raw = "{\"userPrompt\":[]}" ->
            [ok |-> TRUE, val |-> With(Obj(NoFields), "userPrompt", EmptyArr)]
      [] raw = "{\"prompt\":\"hi\",\"systemInstruction\":\"x\",\"tools\":[]}" ->
            [ok |-> TRUE,
             val |-> With(With(With(Obj(NoFields), "prompt", Str("hi")),
                               "systemInstruction", Str("x")),
                          "tools", EmptyArr)]
      [] raw = "{\"userPrompt\":\"hi\",\"systemInstruction\":\"x\",\"tools\":[]}" ->
            [ok |-> TRUE,
             val |-> With(With(With(Obj(NoFields), "userPrompt", Str("hi")),
                               "systemInstruction", Str("x")),
                          "tools", EmptyArr)]
      [] OTHER -> [ok |-> FALSE, val |-> Val("undefined")]

\* v.k throws a TypeError when v is null or undefined.
PropThrows(v) == v.t \in {"null", "undefined"}
\* v.k otherwise: the field of an object, undefined on anything else.
Prop(v, k) == IF v.t = "object" THEN v.f[k] ELSE Undef

(***************************************************************************)
(* The upstream API as the handlers see it.                                *)
(***************************************************************************)
Attribution(u, t) == [uri |-> u, title |-> t]
\* groundingAttributions entries: web.uri and web.title, each possibly
\* missing (undefined) or empty.
Attributions ==
    { Attribution(Str("u1"), Str("t1")), Attribution(Str("u2"), Str("t2")),
      Attribution(Str("u3"), Undef), Attribution(Str(""), Str("t4")) }

\* Longest groundingAttributions list the model draws.
MaxAttrs == 2
AttrLists == UNION { [1..n -> Attributions] : n \in 0..MaxAttrs }

\* A response body: whether it parses as JSON, the shape of candidates
\* ("none": no candidates array, "empty": [], "notext": a candidate without
\* content.parts[0].text, "text"), the text, the attributions of candidate 0,
\* and error.message ("" when absent).
UpBody(json, cand, text, attrs, errmsg) ==
    [json |-> json, cand |-> cand, text |-> text, attrs |-> attrs,
     errmsg |-> errmsg]
NoData == UpBody(FALSE, "none", Undef, <<>>, "")

SuccessBodies ==
    { UpBody(FALSE, "none", Undef, <<>>, ""),
      UpBody(TRUE, "none", Undef, <<>>, ""),
      UpBody(TRUE, "empty", Undef, <<>>, ""),
      UpBody(TRUE, "notext", Undef, <<>>, ""),
      UpBody(TRUE, "text", Str(""), <<>>, "") }
    \cup { UpBody(TRUE, "text", Str("Hello"), as, "") : as \in AttrLists }

ErrorBodies ==
    { UpBody(FALSE, "none", Undef, <<>>, ""),
      UpBody(TRUE, "none", Undef, <<>>, "quota exceeded"),
      UpBody(TRUE, "none", Undef, <<>>, "") }

ErrorStatuses == {400, 403, 429, 503}

StatusText(status) ==
    CASE status = 200 -> "OK"
      [] status = 400 -> "Bad Request"
      [] status = 403 -> "Forbidden"
      [] status = 429 -> "Too Many Requests"
      [] status = 503 -> "Service Unavailable"
      [] OTHER -> ""

Http(status, body) ==
    [kind |-> "http", status |-> status, statusText |-> StatusText(status),
     body |-> body]
\* fetch rejects: a network-level exception with its message.
NetErr == [kind |-> "neterr", status |-> 0, statusText |-> "fetch failed",
           body |-> NoData]

UpstreamResponses ==
    { Http(200, b) : b \in SuccessBodies }
    \cup { Http(s, b) : s \in ErrorStatuses, b \in ErrorBodies }
    \cup { NetErr }

\* response.ok
ResponseOk_Never(r) == FALSE

ResponseOk(r) == r.status \in 200..299

(***************************************************************************)
(* What the handler gives back: a returned response or a thrown exception. *)
(***************************************************************************)
\* A response body: the error text, the exception message appended to it
\* (detail, with the upstream body it embeds in data), or text and sources,
\* or the upstream JSON passed through (data).
RespBody(error, detail, text, sources, data) ==
    [error |-> error, detail |-> detail, text |-> text, sources |-> sources,
     data |-> data]
Return(status, body) == [kind |-> "return", statusCode |-> status, body |-> body]
ErrorResponse(status, msg) ==
    Return(status, RespBody(msg, "", Undef, <<>>, NoData))
\* The handler's promise rejects: no response object is returned.
Throw(msg) == [kind |-> "throw", statusCode |-> 0,
               body |-> RespBody(msg, "", Undef, <<>>, NoData)]
NoResponse == [kind |-> "none", statusCode |-> 0,
               body |-> RespBody("", "", Undef, <<>>, NoData)]
NoPayload == [text |-> Undef, tools |-> "", systemInstruction |-> "", key |-> ""]

\* The request sent upstream: the prompt, the tools, the system instruction
\* and the credential it carries.
Payload(text, tools, sys, key) ==
    [text |-> text, tools |-> tools, systemInstruction |-> sys, key |-> key]
Fetch(pl) == [kind |-> "fetch", payload |-> pl]

(***************************************************************************)
(* The synchronous prologue of each handler: validation and payload.       *)
(* Each yields the response returned, the exception thrown, or the first   *)
(* fetch.                                                                  *)
(***************************************************************************)
SYSTEM_001 == "coach Gymini"
SYSTEM_PROMPT == "Q&A engine"
SYSTEM_AI == "research assistant"

\* const body = JSON.parse(event.body || '{}')
BodyOrDefault(raw) == IF raw = NoBody \/ raw = "" THEN "{}" ELSE raw

\* As Prologue_part_001, but a systemInstruction of the request body replaces
\* the fixed one.
Prologue_part_001_BodySystem(ev, key) ==
    IF ev.httpMethod # "POST" THEN ErrorResponse(405, "Method Not Allowed")
    ELSE IF key = NoKey
    THEN ErrorResponse(500, "Server configuration error: API Key missing.")
    ELSE LET parsed == JSONParse(BodyOrDefault(ev.body)) IN
         IF ~parsed.ok \/ PropThrows(parsed.val)
         THEN ErrorResponse(500, "Internal server error while processing the request.")
         ELSE LET prompt == Prop(parsed.val, "prompt")
                  sys == Prop(parsed.val, "systemInstruction") IN
              IF ~Truthy(prompt)
              THEN ErrorResponse(400, "Missing required parameter: prompt")
              ELSE Fetch(Payload(prompt, "google_search",
                                 IF Truthy(sys) THEN sys.s ELSE SYSTEM_001, key))

\* src/unnamed/part_001, up to the first fetch.
Prologue_part_001(ev, key) ==
    IF ev.httpMethod # "POST" THEN ErrorResponse(405, "Method Not Allowed")
    ELSE IF key = NoKey
    THEN ErrorResponse(500, "Server configuration error: API Key missing.")
    ELSE LET parsed == JSONParse(BodyOrDefault(ev.body)) IN
         IF ~parsed.ok \/ PropThrows(parsed.val)
         THEN \* SyntaxError or TypeError, caught by the outer catch
              ErrorResponse(500, "Internal server error while processing the request.")
         ELSE LET prompt == Prop(parsed.val, "prompt") IN
              IF ~Truthy(prompt)
              THEN ErrorResponse(400, "Missing required parameter: prompt")
              ELSE Fetch(Payload(prompt, "google_search", SYSTEM_001, key))

\* src/functions/gemini_proxy.js, up to the fetch.
Prologue_gemini_proxy(ev, key) ==
    IF ev.httpMethod # "POST" THEN ErrorResponse(405, "Method Not Allowed")
    ELSE IF key = NoKey
    THEN ErrorResponse(500, "Server Configuration Error: API Key missing.")
    ELSE LET parsed == JSONParse(ev.body) IN
         IF ~parsed.ok THEN ErrorResponse(400, "Invalid JSON format.")
         ELSE IF PropThrows(parsed.val)
         THEN \* body.prompt outside any try
              Throw("TypeError")
         ELSE LET userPrompt == Prop(parsed.val, "prompt") IN
              IF ~Truthy(userPrompt)
              THEN ErrorResponse(400, "Missing 'prompt' in request body.")
              ELSE Fetch(Payload(userPrompt, "google_search", SYSTEM_PROMPT, key))

\* src/netlify/functions/ai-proxy.js, up to the call of retryFetch.
Prologue_ai_proxy(ev, key) ==
    IF key = NoKey
    THEN ErrorResponse(500, "Server Error: GEMINI_API_KEY not configured in Netlify environment variables.")
    ELSE LET parsed == JSONParse(ev.body) IN
         IF ~parsed.ok \/ PropThrows(parsed.val)
         THEN ErrorResponse(400, "Invalid request body.")
         ELSE LET userPrompt == Prop(parsed.val, "userPrompt") IN
              IF ~Truthy(userPrompt)
              THEN ErrorResponse(400, "Missing 'userPrompt' in request.")
              ELSE Fetch(Payload(userPrompt, "google_search", SYSTEM_AI, key))

\* src/unnamed/part_000, up to the fetch: the body is parsed and
\* destructured before the key is looked at, outside the try.
Prologue_part_000(ev, key) ==
    LET parsed == JSONParse(ev.body) IN
    IF ~parsed.ok THEN Throw("SyntaxError")
    ELSE IF PropThrows(parsed.val) THEN Throw("TypeError")
    ELSE IF key = NoKey
    THEN ErrorResponse(500, "Server error: API key not configured.")
    ELSE Fetch(Payload(Prop(parsed.val, "userPrompt"), "none", "none", key))

Prologue(v, ev, key) ==
    CASE v = "part_001" -> Prologue_part_001(ev, key)
      [] v = "gemini_proxy" -> Prologue_gemini_proxy(ev, key)
      [] v = "ai_proxy" -> Prologue_ai_proxy(ev, key)
      [] v = "part_000" -> Prologue_part_000(ev, key)

\* The name of the prompt field each variant reads.
PromptField(v) == IF v \in {"part_001", "gemini_proxy"} THEN "prompt" ELSE "userPrompt"

(***************************************************************************)
(* Normalization of a successful upstream body.                            *)
(***************************************************************************)
\* .filter(source => source.uri && source.title)
Complete_UriOnly(a) == Truthy(a.uri)

Complete(a) == Truthy(a.uri) /\ Truthy(a.title)
Sources(attrs) == SelectSeq(attrs, Complete)

\* result.candidates?.[0] is defined
HasCandidate(b) == b.cand \in {"notext", "text"}

Internal500 ==
    ErrorResponse(500, "Internal server error while processing the request.")

\* src/unnamed/part_001 after the loop, with an ok response.
Normalize_part_001(b) ==
    IF ~b.json THEN Internal500
    ELSE IF HasCandidate(b) /\ Truthy(b.text)
    THEN Return(200, RespBody("", "", b.text, Sources(b.attrs), NoData))
    ELSE ErrorResponse(500, "The AI model returned an unexpected response structure.")

(***************************************************************************)
(* From the settlement of a fetch to the next sleep or to the return.      *)
(***************************************************************************)
Sleep(delay, att) == [kind |-> "sleep", delay |-> delay, attempt |-> att]

maxRetries == 3
retries == 3
JitterBound == 1000
\* Math.random() * 1000 lies in [0, 1000); the values the model draws.
Jitters == {0, JitterBound - 1}

\* apiResponse.status === 400 || apiResponse.status === 403
NonRetriable_Never(status) == FALSE

NonRetriable(status) == status = 400 \/ status = 403

\* Math.pow(2, attempt) * 500
Delay_part_001(att) == (2 ^ att) * 500

\* Math.pow(2, i) * 1000 + Math.random() * 1000
Delay_ai_proxy(i, jitter) == (2 ^ i) * 1000 + jitter

\* As AfterFetch_part_001, but the loop goes round once more
\* (attempt <= maxRetries).
AfterFetch_part_001_OffByOne(r, att) ==
    IF r.kind = "neterr" THEN Internal500
    ELSE IF ResponseOk(r) THEN Normalize_part_001(r.body)
    ELSE IF ~r.body.json THEN Internal500
    ELSE IF NonRetriable(r.status) THEN Internal500
    ELSE IF att + 1 <= maxRetries
    THEN Sleep(Delay_part_001(att + 1), att + 1)
    ELSE ErrorResponse(500, "Failed to get a successful response from the Gemini API after retries.")

\* src/unnamed/part_001: one iteration of the while loop after the fetch
\* has settled, and the code after the loop when the loop ends.
AfterFetch_part_001(r, att) ==
    IF r.kind = "neterr" THEN Internal500
    ELSE IF ResponseOk(r) THEN Normalize_part_001(r.body)
    ELSE IF ~r.body.json
    THEN \* await apiResponse.json() throws; the inner catch rethrows
         Internal500
    ELSE IF NonRetriable(r.status) THEN Internal500
    ELSE IF att + 1 < maxRetries
    THEN Sleep(Delay_part_001(att + 1), att + 1)
    ELSE ErrorResponse(500, "Failed to get a successful response from the Gemini API after retries.")

Failed_ai_proxy(detail, data) ==
    Return(500, RespBody("Failed to communicate with the AI service: ", detail,
                         Undef, <<>>, data))

\* src/netlify/functions/ai-proxy.js: one iteration of retryFetch after the
\* fetch has settled, and the handler's code once retryFetch returns or throws.
AfterFetch_ai_proxy(r, i, jitter) ==
    IF r.kind = "neterr"
    THEN IF i = retries - 1 THEN Failed_ai_proxy(r.statusText, NoData)
         ELSE Sleep(Delay_ai_proxy(i, jitter), i)
    ELSE IF ResponseOk(r)
    THEN IF ~r.body.json THEN Failed_ai_proxy("SyntaxError", NoData)
         ELSE Return(200, RespBody("", "", Undef, <<>>, r.body))
    ELSE IF i < retries - 1 THEN Sleep(Delay_ai_proxy(i, jitter), i)
    ELSE Failed_ai_proxy("Final request failed with status", r.body)

\* src/functions/gemini_proxy.js after the fetch has settled.
AfterFetch_gemini_proxy(r) ==
    IF r.kind = "neterr" \/ ~r.body.json
    THEN ErrorResponse(500, "An unexpected server error occurred.")
    ELSE IF ~ResponseOk(r)
    THEN ErrorResponse(r.status, IF r.body.errmsg # "" THEN r.body.errmsg
                                 ELSE "Gemini API call failed.")
    ELSE Return(200, RespBody("", "", r.body.text, Sources(r.body.attrs), NoData))

\* src/unnamed/part_000 after the fetch has settled.
AfterFetch_part_000(r) ==
    IF r.kind = "neterr" \/ ~r.body.json
    THEN ErrorResponse(500, "Failed to communicate with the AI service.")
    ELSE Return(200, RespBody("", "", Undef, <<>>, r.body))

AfterFetch(v, r, att, jitter) ==
    CASE v = "part_001" -> AfterFetch_part_001(r, att)
      [] v = "ai_proxy" -> AfterFetch_ai_proxy(r, att, jitter)
      [] v = "gemini_proxy" -> AfterFetch_gemini_proxy(r)
      [] v = "part_000" -> AfterFetch_part_000(r)

(***************************************************************************)
(* The state machine of one invocation.                                    *)
(***************************************************************************)
Init ==
    /\ variant \in Variants
    /\ event \in [httpMethod : Methods, body : RawBodies]
    /\ apiKey \in Keys
    /\ pc = "start"
    /\ payload = NoPayload
    /\ attempt = 0
    /\ sent = <<>>
    /\ calls = <<>>
    /\ sleeps = <<>>
    /\ response = NoResponse

\* The runtime calls the handler: it runs to its first fetch or to its end.
Invoke ==
    /\ pc = "start"
    /\ LET p == Prologue(variant, event, apiKey) IN
       IF p.kind = "fetch"
       THEN /\ pc' = "fetching"
            /\ payload' = p.payload
            /\ sent' = Append(sent, p.payload)
            /\ UNCHANGED response
       ELSE /\ pc' = "done"
            /\ response' = p
            /\ UNCHANGED <<payload, sent>>
    /\ UNCHANGED <<variant, event, apiKey, attempt, calls, sleeps>>

\* The fetch in flight settles with r (a response or a network exception).
FetchSettle ==
    /\ pc = "fetching"
    /\ \E r \in UpstreamResponses, jitter \in Jitters :
         LET st == AfterFetch(variant, r, attempt, jitter) IN
         /\ calls' = Append(calls, r)
         /\ IF st.kind = "sleep"
            THEN /\ pc' = "sleeping"
                 /\ sleeps' = Append(sleeps, st.delay)
                 /\ attempt' = st.attempt
                 /\ UNCHANGED response
            ELSE /\ pc' = "done"
                 /\ response' = st
                 /\ UNCHANGED <<sleeps, attempt>>
    /\ UNCHANGED <<variant, event, apiKey, payload, sent>>

\* The backoff timer fires: the loop goes round and fetches again.
Wake ==
    /\ pc = "sleeping"
    /\ attempt' = IF variant = "ai_proxy" THEN attempt + 1 ELSE attempt
    /\ sent' = Append(sent, payload)
    /\ pc' = "fetching"
    /\ UNCHANGED <<variant, event, apiKey, payload, calls, sleeps, response>>

Next == Invoke \/ FetchSettle \/ Wake

Spec == Init /\ [][Next]_vars

\* The runtime calls the handler, every fetch settles and every timer fires.
FairSpec == Spec /\ WF_vars(Next)

TypeOK ==
    /\ pc \in {"start", "fetching", "sleeping", "done"}
    /\ attempt \in 0..maxRetries
    /\ Len(sent) <= maxRetries
    /\ response.kind \in {"none", "return", "throw"}

(***************************************************************************)
(* Vocabulary of the properties.                                           *)
(***************************************************************************)
IsPost == event.httpMethod = "POST"
CredentialPresent == apiKey # NoKey
NetworkCalls == Len(sent)
Parsed == JSONParse(event.body)
\* The raw body parses to an object.
ParsesToObject == Parsed.ok /\ Parsed.val.t = "object"
\* The prompt field of the parsed body, under the variant's field name.
PromptOf == Prop(Parsed.val, PromptField(variant))
Responded(status) ==
    pc = "done" /\ response.kind = "return" /\ response.statusCode = status
\* A settlement with a non-success status other than 400 and 403.
RetriableFailure(r) ==
    r.kind = "http" /\ r.status \notin 200..299 /\ r.status \notin {400, 403}
Success(r) == r.kind = "http" /\ r.status \in 200..299
Rejected(r) == r.kind = "http" /\ r.status \in {400, 403}

(***************************************************************************)
(* C1  A request whose method is not POST is answered 405 and no fetch is  *)
(* issued, whatever the body and the credential (part_001, gemini_proxy,   *)
(* ai_proxy).                                                              *)
(***************************************************************************)
C1_NonPostIs405 ==
    (variant \in {"part_001", "gemini_proxy", "ai_proxy"} /\ ~IsPost)
        => /\ NetworkCalls = 0
           /\ pc = "done" => Responded(405)

(***************************************************************************)
(* C2  A POST with the credential present whose body is not JSON, or is    *)
(* JSON for something that is not an object, is answered 400 and no fetch  *)
(* is issued (part_001, gemini_proxy).                                     *)
(***************************************************************************)
C2_MalformedBodyIs400 ==
    (/\ variant \in {"part_001", "gemini_proxy"}
     /\ IsPost /\ CredentialPresent
     /\ ~ParsesToObject)
        => /\ NetworkCalls = 0
           /\ pc = "done" => Responded(400)

(***************************************************************************)
(* C3  A POST with the credential present whose body parses to an object   *)
(* without the prompt field, or with the empty string as prompt, is        *)
(* answered 400 and no fetch is issued (part_001, gemini_proxy, ai_proxy;  *)
(* the field is prompt in the first two and userPrompt in the third).      *)
(***************************************************************************)
C3_Pre ==
    /\ variant \in {"part_001", "gemini_proxy", "ai_proxy"}
    /\ IsPost /\ CredentialPresent
    /\ ParsesToObject
    /\ PromptOf \in {Undef, Str("")}

C3_MissingPromptIs400 ==
    C3_Pre => /\ NetworkCalls = 0
              /\ pc = "done" => Responded(400)

\* The handler has answered a request whose prompt is the empty string.
C3_Witness == C3_Pre /\ PromptOf = Str("") /\ Responded(400)

(***************************************************************************)
(* C4  A POST whose prompt is present but not a string (a non-zero number, *)
(* true, an object, an array) is answered 400 and no fetch is issued       *)
(* (part_001, gemini_proxy).                                               *)
(***************************************************************************)
C4_NonStringPromptIs400 ==
    (/\ variant \in {"part_001", "gemini_proxy"}
     /\ IsPost /\ CredentialPresent
     /\ ParsesToObject
     /\ PromptOf.t \notin {"undefined", "string"})
        => /\ NetworkCalls = 0
           /\ pc = "done" => Responded(400)

(***************************************************************************)
(* C5  A POST without the credential is answered with a returned response  *)
(* of status 500 and no fetch is issued, whatever the body (all variants). *)
(***************************************************************************)
C5_NoCredentialIs500 ==
    (IsPost /\ ~CredentialPresent)
        => /\ NetworkCalls = 0
           /\ pc = "done" => Responded(500)

(***************************************************************************)
(* C6  In the retrying variants, when the first fetch settles with a       *)
(* success status the invocation ends with exactly one fetch issued and no *)
(* backoff sleep.                                                          *)
(***************************************************************************)
C6_Pre == variant \in Retrying /\ IsPost /\ Len(calls) >= 1 /\ Success(calls[1])

C6_FirstSuccessOneCall ==
    C6_Pre => /\ pc = "done"
              /\ response.kind = "return"
              /\ NetworkCalls = 1
              /\ Len(calls) = 1
              /\ sleeps = <<>>

\* part_001 has answered 200 after a first success.
C6_Witness == C6_Pre /\ variant = "part_001" /\ Responded(200)

(***************************************************************************)
(* C7  In the retrying variants, when the upstream answers a retriable     *)
(* failure status to the first and the second fetch and a success status   *)
(* to the third, the finished invocation has issued exactly three fetches  *)
(* and slept exactly twice, the second delay longer than the first, and    *)
(* the response is 200 when the body carries a candidate text.             *)
(***************************************************************************)
\* Every fetch settled so far got what the scripted upstream answers:
\* retriable failure, retriable failure, success.
C7_Script ==
    /\ Len(calls) >= 1
    /\ \A k \in 1..Len(calls) :
         /\ k <= 3
         /\ k <= 2 => RetriableFailure(calls[k])
         /\ k = 3 => Success(calls[k])

C7_TwoFailuresThenSuccess ==
    (variant \in Retrying /\ IsPost /\ pc = "done" /\ C7_Script)
        => /\ NetworkCalls = 3
           /\ Len(sleeps) = 2
           /\ sleeps[2] > sleeps[1]
           /\ response.kind = "return"
           /\ (/\ calls[3].body.json
               /\ HasCandidate(calls[3].body)
               /\ Truthy(calls[3].body.text)) => response.statusCode = 200

(***************************************************************************)
(* C8  In the retrying variants, when the upstream answers a retriable     *)
(* failure status to every fetch, the finished invocation has issued       *)
(* exactly 3 fetches and the response status is 500.                       *)
(***************************************************************************)
C8_AllFailuresThreeCalls ==
    (/\ variant \in Retrying /\ IsPost /\ pc = "done"
     /\ Len(calls) >= 1
     /\ \A k \in 1..Len(calls) : RetriableFailure(calls[k]))
        => /\ NetworkCalls = maxRetries
           /\ Responded(500)

(***************************************************************************)
(* C9  In the retrying variants, a fetch that settles with status 400 or   *)
(* 403 is the last one: the loop ends there, with no further fetch and no  *)
(* backoff sleep after it.                                                 *)
(***************************************************************************)
C9_RejectionEndsLoop ==
    (variant \in Retrying /\ IsPost)
        => \A k \in 1..Len(calls) :
              Rejected(calls[k])
                 => /\ pc = "done"
                    /\ Len(calls) = k
                    /\ NetworkCalls = k
                    /\ Len(sleeps) = k - 1

(***************************************************************************)
(* C10  In part_001, when the upstream rejects the call with 400 or 403    *)
(* the response returned to the caller carries that same status.           *)
(***************************************************************************)
C10_RejectionStatusMirrored ==
    (/\ variant = "part_001" /\ pc = "done"
     /\ Len(calls) >= 1
     /\ Rejected(calls[Len(calls)]))
        => /\ response.kind = "return"
           /\ response.statusCode = calls[Len(calls)].status

(***************************************************************************)
(* C11  In the retrying variants, a fetch that rejects with a network      *)
(* exception before the third attempt is followed by a backoff sleep and   *)
(* a further fetch; only a rejection of the third fetch ends the           *)
(* invocation, with a 500.                                                 *)
(***************************************************************************)
C11_NetworkErrorRetried ==
    (variant \in Retrying /\ IsPost)
        => \A k \in 1..Len(calls) :
              calls[k].kind = "neterr"
                 => /\ k < 3 => /\ Len(sleeps) >= k
                                /\ pc # "sleeping" => NetworkCalls > k
                    /\ k = 3 => Responded(500)

(***************************************************************************)
(* C12  The sources of a 200 response of part_001 and gemini_proxy are     *)
(* exactly the attributions of candidate 0 that have a non-empty web.uri   *)
(* and a non-empty web.title, in the upstream's order: nothing incomplete  *)
(* is included, nothing complete is dropped, nothing is reordered and      *)
(* duplicates are kept.                                                    *)
(***************************************************************************)
NonEmptyString(v) == v.t = "string" /\ v.s # ""
\* The positions of the complete attributions of the last upstream body.
LastBodyCall == calls[Len(calls)]
LastBody == LastBodyCall.body
CompleteAt ==
    { i \in 1..Len(LastBody.attrs) :
        NonEmptyString(LastBody.attrs[i].uri)
        /\ NonEmptyString(LastBody.attrs[i].title) }
\* The j-th smallest complete position.
NthComplete(j) ==
    CHOOSE i \in CompleteAt : Cardinality({m \in CompleteAt : m <= i}) = j

C12_Pre == variant \in {"part_001", "gemini_proxy"} /\ Responded(200)

C12_SourcesAreCompleteSubsequence ==
    C12_Pre
        => /\ Len(response.body.sources) = Cardinality(CompleteAt)
           /\ \A j \in 1..Len(response.body.sources) :
                response.body.sources[j] = LastBody.attrs[NthComplete(j)]

\* A 200 whose upstream body had a complete attribution after an
\* incomplete one: one is dropped, one is kept.
C12_Witness ==
    /\ C12_Pre
    /\ Len(LastBody.attrs) = 2
    /\ CompleteAt = {2}
    /\ Len(response.body.sources) = 1

(***************************************************************************)
(* C13  In part_001 and gemini_proxy, a successful upstream response       *)
(* without candidates, with an empty candidates array or with a first      *)
(* candidate that has no text is answered 500, never 200.                  *)
(***************************************************************************)
C13_NoTextIs500 ==
    (/\ variant \in {"part_001", "gemini_proxy"} /\ pc = "done"
     /\ Len(calls) >= 1
     /\ Success(calls[Len(calls)])
     /\ LastBody.json
     /\ ~(HasCandidate(LastBody) /\ NonEmptyString(LastBody.text)))
        => Responded(500)

(***************************************************************************)
(* C14  In part_001 and ai_proxy the payload depends on the request only   *)
(* through the prompt: whatever other request of the same handler reaches  *)
(* the upstream (extra systemInstruction or tools fields included), its    *)
(* payload has the same systemInstruction and the same tools as every      *)
(* payload sent here, and the same payload altogether when the prompt is   *)
(* the same; every attempt of the invocation sends the same payload.       *)
(***************************************************************************)
C14_Pre == variant \in {"part_001", "ai_proxy"} /\ NetworkCalls >= 1

\* The payloads a handler sends over all the requests that reach the upstream.
PayloadsOf ==
    [v \in Variants, key \in Keys |->
        { Prologue(v, ev, key).payload :
            ev \in { e \in [httpMethod : Methods, body : RawBodies] :
                        Prologue(v, e, key).kind = "fetch" } }]

C14_PayloadDependsOnPromptOnly ==
    C14_Pre
        => \A k \in 1..Len(sent) :
             /\ sent[k] = sent[1]
             /\ sent[k].tools = "google_search"
             /\ \A other \in PayloadsOf[variant, apiKey] :
                  /\ other.systemInstruction = sent[k].systemInstruction
                  /\ other.tools = sent[k].tools
                  /\ other.text = sent[k].text => other = sent[k]

\* Three attempts of a request whose body carries its own systemInstruction
\* and tools.
C14_Witness ==
    /\ C14_Pre
    /\ Len(sent) = 3
    /\ ParsesToObject
    /\ Prop(Parsed.val, "systemInstruction") # Undef
    /\ Prop(Parsed.val, "tools") # Undef

(***************************************************************************)
(* C15  On every failure path of every variant the response body carries   *)
(* no upstream error content and no exception message: only one of the     *)
(* handler's own fixed texts.                                              *)
(***************************************************************************)
\* The error messages the upstream puts in its error bodies.
UpstreamErrorMessages == { b.errmsg : b \in ErrorBodies } \ {""}

C15_NoUpstreamDetailInErrors ==
    (pc = "done" /\ response.kind = "return" /\ response.statusCode # 200)
        => /\ response.body.detail = ""
           /\ response.body.data = NoData
           /\ response.body.error \notin UpstreamErrorMessages

(***************************************************************************)
(* C16  In part_001 the k-th backoff sleep (after the failed attempt of    *)
(* zero-indexed number k-1) lasts 500 * 2^(k-1) ms: 500 ms after the first *)
(* failed attempt and 1000 ms after the second.                            *)
(***************************************************************************)
C16_BackoffFrom500 ==
    variant = "part_001"
        => \A k \in 1..Len(sleeps) : sleeps[k] = 500 * (2 ^ (k - 1))

(***************************************************************************)
(* C17  In the retrying variants the loop is sequential: at most one fetch *)
(* is in flight, a fetch is issued only once the previous one has settled  *)
(* and the sleep after it has ended, a sleep follows only a failed         *)
(* retriable attempt (a non-success status other than 400 and 403, or a    *)
(* network exception) that is not the last one, once per attempt, and a    *)
(* finished invocation has slept once less than it has fetched (or never   *)
(* when it has not fetched).                                               *)
(***************************************************************************)
InFlight == Len(sent) - Len(calls)

\* The sequencing alone, whatever the failure that is slept on.
C17_Sequencing ==
    /\ InFlight \in {0, 1}
    /\ (pc = "fetching") <=> (InFlight = 1)
    /\ Len(sleeps) <= Len(calls)
    /\ pc = "sleeping" => Len(sent) = Len(sleeps)
    /\ pc # "sleeping" => Len(sent) <= Len(sleeps) + 1
    /\ \A k \in 1..Len(sleeps) : k < 3 /\ ~Success(calls[k])
    /\ pc = "done"
          => Len(sleeps) = IF Len(sent) = 0 THEN 0 ELSE Len(sent) - 1

C17_SequentialLoop ==
    (variant \in Retrying /\ IsPost)
        => /\ C17_Sequencing
           /\ \A k \in 1..Len(sleeps) :
                RetriableFailure(calls[k]) \/ calls[k].kind = "neterr"

(***************************************************************************)
(* C18  When every fetch settles and every sleep ends, an invocation of a  *)
(* retrying variant comes to its end, with one returned response (200,     *)
(* 400, 405 or 500) that it has from the moment it ends and not before,    *)
(* and it never issues more than 3 fetches.                                *)
(***************************************************************************)
C18_TerminatesWithinThreeCalls ==
    /\ [](variant \in Retrying
            => /\ NetworkCalls <= 3
               /\ (pc = "done") <=> (response.kind = "return")
               /\ pc = "done" => response.statusCode \in {200, 400, 405, 500})
    /\ <>(variant \in Retrying => pc = "done")

\* An invocation that has ended by exhaustion, after three fetches.
C18_Witness ==
    variant \in Retrying /\ NetworkCalls = 3 /\ Responded(500)
    /\ ~Success(calls[3])

(***************************************************************************)
(* C19  In part_001 a non-success status other than 400 and 403 on the     *)
(* first or second attempt is followed by a backoff sleep and a further    *)
(* fetch, whatever the error body, a body that is not JSON included.       *)
(***************************************************************************)
C19_ErrorBodyNeverEndsLoop ==
    (variant = "part_001" /\ IsPost)
        => \A k \in 1..Len(calls) :
              (RetriableFailure(calls[k]) /\ k < 3)
                 => /\ Len(sleeps) >= k
                    /\ pc # "sleeping" => NetworkCalls > k

(***************************************************************************)
(* C20  part_001 answers 200 only to a POST with the credential present    *)
(* and a truthy prompt, after a last fetch that settled with a success     *)
(* status and a non-empty candidate text, which is the text of the body;   *)
(* every fetch before the last got a retriable failure status.             *)
(***************************************************************************)
C20_Pre == variant = "part_001" /\ Responded(200)

C20_OnlyWay200 ==
    C20_Pre
        => /\ IsPost /\ CredentialPresent
           /\ ParsesToObject
           /\ PromptOf \notin {Undef, Null, Str(""), Num(0), Bool(FALSE)}
           /\ Len(calls) >= 1
           /\ Len(calls) = NetworkCalls
           /\ Success(LastBodyCall)
           /\ HasCandidate(LastBody)
           /\ NonEmptyString(LastBody.text)
           /\ response.body.text = LastBody.text
           /\ \A k \in 1..(Len(calls) - 1) : RetriableFailure(calls[k])

\* A 200 on the third attempt.
C20_Witness == C20_Pre /\ Len(calls) = 3

====
